---- MODULE Spec2Model ----
(***************************************************************************)
(* Model of the audiokit processing graph: AudioGraphManager               *)
(* (audiokit/graph/manager.py), the graph commands of the command line     *)
(* (audiokit/cli.py), the pipeline loader (audiokit/cli/pipeline.py) and   *)
(* the audio callback that the sound device invokes once per block.        *)
(* The control operations are handlers run to completion; the audio        *)
(* callback runs on the device's thread and is modelled statement by       *)
(* statement, interleaved with the control operations.                     *)
(***************************************************************************)
EXTENDS Integers, Sequences, FiniteSets, TLC

\* Bound on the length of the connection list (the code does not bound it).
MaxConns == 3

\* Node identifiers used as inputs (the spec's scenario: in -> f -> out).
NodeIds == {"in", "f", "out"}

\* get_available_nodes(): the node classes the command line and the loader know.
get_available_nodes == {"AudioInputNode", "AudioOutputNode", "AudioFilterNode"}

\* (id, type) pairs offered to add_node: each id has its natural type and
\* "f" is also offered as a delay, so that re-adding an id can change the node.
NodeInputs ==
    { <<"in", "AudioInputNode">>, <<"f", "AudioFilterNode">>,
      <<"out", "AudioOutputNode">>, <<"f", "DelayNode">> }

\* (from, to) pairs offered to connect: the chain, a second branch, the edge
\* that closes the chain into a cycle, and a self-loop.
ConnInputs ==
    { <<"in", "f">>, <<"f", "out">>, <<"in", "out">>, <<"out", "in">>, <<"f", "f">> }

\* sd.Stream(channels=2, ..., blocksize=1024): the shape of every block the
\* device hands to the callback.
Channels == 2
blocksize == 1024

\* A block of frames x channels samples, by its shape; the values that stand
\* where a block may stand: None, an exception raised in place of a block,
\* and "no block yet".
Block(frames, channels) == [is |-> "block", frames |-> frames, channels |-> channels]
NoBlock(what) == [is |-> what, frames |-> 0, channels |-> 0]

\* AudioNode.__init__: a node object (its class and its id).
AudioNode(node_type, node_id) == [id |-> node_id, type |-> node_type]

\* The empty dict.
EmptyNodes == [i \in {} |-> AudioNode("AudioInputNode", "in")]

\* The value of a name that holds no graph (the loader raised).
NoGraph == [nodes |-> EmptyNodes, connections |-> << >>, built |-> FALSE]

\* Sample values and float parameters are exact fractions <<n, d>>, d > 0, in
\* lowest terms.  The inputs are halves and small integers, which the floats
\* of the code represent and combine without rounding.
RECURSIVE GCD(_, _)
GCD(a, b) == IF b = 0 THEN a ELSE GCD(b, a % b)
Abs(n) == IF n < 0 THEN -n ELSE n
Frac(n, d) ==
    LET g == GCD(Abs(n), d) IN <<n \div g, d \div g>>
Zero == Frac(0, 1)
One == Frac(1, 1)
Half == Frac(1, 2)
FAdd(x, y) == Frac(x[1] * y[2] + y[1] * x[2], x[2] * y[2])
FSub(x, y) == Frac(x[1] * y[2] - y[1] * x[2], x[2] * y[2])
FMul(x, y) == Frac(x[1] * y[1], x[2] * y[2])
FDiv(x, y) ==
    IF y[1] > 0 THEN Frac(x[1] * y[2], x[2] * y[1])
    ELSE Frac(-(x[1] * y[2]), -(x[2] * y[1]))
FLess(x, y) == x[1] * y[2] < y[1] * x[2]
FMin(x, y) == IF FLess(y, x) THEN y ELSE x

\* A frame of a stereo block: one sample per channel; numpy's arithmetic on
\* frames is element by element, a scalar applying to both samples.
Frame(left, right) == <<left, right>>
ZeroFrame == Frame(Zero, Zero)
FrameAdd(x, y) == Frame(FAdd(x[1], y[1]), FAdd(x[2], y[2]))
FrameScale(x, k) == Frame(FMul(x[1], k), FMul(x[2], k))

\* No DelayNode has been constructed.
NoDelay ==
    [buffer_size |-> 0, buffer |-> << >>, write_pos |-> 0,
     feedback |-> Zero, mix |-> Zero, constructed |-> FALSE]

\* An ndarray: its shape, <<n>> or <<n, c>>, and its elements in row order.
Array(shape, data) == [shape |-> shape, data |-> data]
NoArray == Array(<< >>, << >>)

\* No AudioFilterNode has been constructed.
NoFilter ==
    [cutoff |-> 0,
     coefficients |-> [order |-> 0, Wn |-> Zero, btype |-> "none"],
     constructed |-> FALSE,
     raised |-> "none"]

\* No CompressorNode has been constructed.
NoCompressor ==
    [threshold |-> Zero, ratio |-> One, makeup |-> Zero,
     attack_samples |-> 0, release_samples |-> 0, envelope |-> Zero,
     constructed |-> FALSE]

VARIABLES
    nodes,             \* self.nodes: dict id -> node
    connections,       \* self.connections: list of (from_id, to_id)
    monitor_callback,  \* self.monitor_callback: None (FALSE) or set (TRUE)
    result,            \* how the last control call ended
    pipeline,          \* the graph returned by the last successful create()
    pc,                \* position of the audio callback
    output,            \* callback's local `output`
    outdata,           \* the device's output block of the current callback
    executed,          \* ids of the nodes whose process() ran in this block
    monitored,         \* the monitor callback was invoked for this block
    stream,            \* self.stream: "active" after start(), "stopped"
    indata,            \* the input block of the current callback (its shape)
    outshape,          \* the output block of the current callback (its shape)
    active_nodes,      \* PipelineGraph.active_nodes
    cpu_usage,         \* PipelineGraph.cpu_usage
    signal_levels,     \* PipelineGraph.signal_levels
    node_class,        \* class of the node whose process() was called last
    node_input,        \* the block it was given, or None
    node_output,       \* the block it returned, or the exception it raised
    delay_node,        \* a DelayNode: buffer_size, buffer, write_pos, feedback, mix
    delay_input,       \* the frames given to its process() since construction
    delay_output,      \* the frames its process() returned since construction
    delay_raised,      \* how the last call on the DelayNode class ended
    filter_node,       \* an AudioFilterNode: cutoff and the coefficients b, a
    filter_input,      \* the blocks given to its process(), concatenated
    filter_output,     \* the blocks its process() returned, concatenated
    filter_calls,      \* the number of process() calls on it
    compressor_node,   \* a CompressorNode: its parameters and its envelope
    comp_input,        \* the block given to its last process()
    comp_output,       \* the block that call returned
    comp_raised,       \* how the last call on the CompressorNode class ended
    comp_calls         \* the number of process() calls on it

vars == <<nodes, connections, monitor_callback, result, pipeline,
          pc, output, outdata, executed, monitored,
          stream, indata, outshape, active_nodes, cpu_usage, signal_levels,
          node_class, node_input, node_output,
          delay_node, delay_input, delay_output, delay_raised,
          filter_node, filter_input, filter_output, filter_calls,
          compressor_node, comp_input, comp_output, comp_raised, comp_calls>>

graphVars == <<nodes, connections>>
audioVars == <<pc, output, outdata, executed, monitored>>
blockVars == <<stream, indata, outshape>>
widgetVars == <<active_nodes, cpu_usage, signal_levels>>
nodeVars == <<node_class, node_input, node_output>>
delayVars == <<delay_node, delay_input, delay_output, delay_raised>>
filterVars == <<filter_node, filter_input, filter_output, filter_calls>>
compressorVars ==
    <<compressor_node, comp_input, comp_output, comp_raised, comp_calls>>
effectVars == <<delayVars, filterVars, compressorVars>>
engineVars == <<nodes, connections, monitor_callback, result, pipeline,
                audioVars, blockVars, widgetVars, nodeVars>>

----------------------------------------------------------------------------
(* Graph relations used by the properties.                                 *)

\* The set of edges of a connection list.
Edges(conns) == { conns[i] : i \in 1..Len(conns) }

\* Nodes reachable from the set s in one or more steps along the edges es.
RECURSIVE ReachFrom(_, _, _)
ReachFrom(es, frontier, seen) ==
    LET next == { e[2] : e \in { x \in es : x[1] \in frontier } } \ seen
    IN  IF next = {} THEN seen ELSE ReachFrom(es, next, seen \cup next)

\* There is a directed path of one or more connections from a to b.
Reaches(conns, a, b) == b \in ReachFrom(Edges(conns), {a}, {})

----------------------------------------------------------------------------
(* AudioGraphManager: pure forms of the operations on a graph value.       *)

\* AudioGraphManager.__init__: no nodes, no connections.
NewGraph == [nodes |-> EmptyNodes, connections |-> << >>, built |-> TRUE]

\* self.nodes[node.id] = node
StoreNode(ns, node) ==
    [i \in (DOMAIN ns) \cup {node.id} |-> IF i = node.id THEN node ELSE ns[i]]

\* connect() without the check of to_id.
ConnectOutcomeSourceOnly(ns, from_id, to_id) ==
    IF from_id \notin DOMAIN ns THEN "ValueError" ELSE "ok"

\* The exception connect() raises, or "ok".
ConnectOutcome(ns, from_id, to_id) ==
    IF from_id \notin DOMAIN ns THEN "ValueError"
    ELSE IF to_id \notin DOMAIN ns THEN "ValueError"
    ELSE "ok"

\* connect() appending before it checks to_id.
ConnectListAppendFirst(ns, conns, from_id, to_id) ==
    IF from_id \in DOMAIN ns THEN Append(conns, <<from_id, to_id>>) ELSE conns

\* The connection list after connect() returned or raised.
ConnectList(ns, conns, from_id, to_id) ==
    IF ConnectOutcome(ns, from_id, to_id) = "ok"
    THEN Append(conns, <<from_id, to_id>>)
    ELSE conns

----------------------------------------------------------------------------
Init ==
    /\ nodes = EmptyNodes
    /\ connections = << >>
    /\ monitor_callback = FALSE
    /\ result = "none"
    /\ pipeline = NoGraph
    /\ pc = "idle"
    /\ output = "unset"
    /\ outdata = "unwritten"
    /\ executed = {}
    /\ monitored = FALSE
    /\ stream = "active"
    /\ indata = NoBlock("none")
    /\ outshape = NoBlock("none")
    /\ active_nodes = {}
    /\ cpu_usage = << >>
    /\ signal_levels = << >>
    /\ node_class = "none"
    /\ node_input = NoBlock("none")
    /\ node_output = NoBlock("none")
    /\ delay_node = NoDelay
    /\ delay_input = << >>
    /\ delay_output = << >>
    /\ delay_raised = "none"
    /\ filter_node = NoFilter
    /\ filter_input = NoArray
    /\ filter_output = NoArray
    /\ filter_calls = 0
    /\ compressor_node = NoCompressor
    /\ comp_input = NoArray
    /\ comp_output = NoArray
    /\ comp_raised = "none"
    /\ comp_calls = 0

\* AudioGraphManager.add_node(node)
add_node(node_id, node_type) ==
    /\ nodes' = StoreNode(nodes, AudioNode(node_type, node_id))
    /\ result' = "ok"
    /\ UNCHANGED <<connections, monitor_callback, pipeline, audioVars, blockVars, widgetVars, nodeVars, effectVars>>

\* AudioGraphManager.connect(from_id, to_id)
connect(from_id, to_id) ==
    /\ Len(connections) < MaxConns
    /\ connections' = ConnectList(nodes, connections, from_id, to_id)
    /\ result' = ConnectOutcome(nodes, from_id, to_id)
    /\ UNCHANGED <<nodes, monitor_callback, pipeline, audioVars, blockVars, widgetVars, nodeVars, effectVars>>

\* audiokit/cli.py add_node(node_type, node_id, params): the "graph add-node"
\* command; params_ok is whether the --params text parses as JSON.
cli_add_node(node_type, node_id, params_ok) ==
    /\ IF node_type \notin get_available_nodes
       THEN /\ result' = "ExitUnknownNodeType"
            /\ UNCHANGED nodes
       ELSE IF ~params_ok
       THEN /\ result' = "ExitParamsJSON"
            /\ UNCHANGED nodes
       ELSE /\ nodes' = StoreNode(nodes, AudioNode(node_type, node_id))
            /\ result' = "ok"
    /\ UNCHANGED <<connections, monitor_callback, pipeline, audioVars, blockVars, widgetVars, nodeVars, effectVars>>

\* The "graph connect" command refusing only when both nodes are missing
\* ("and" in place of "or").
cli_connect_and(from_node, to_node) ==
    /\ Len(connections) < MaxConns
    /\ IF from_node \notin DOMAIN nodes /\ to_node \notin DOMAIN nodes
       THEN /\ result' = "ExitBothNodesMustExist"
            /\ UNCHANGED connections
       ELSE /\ connections' = Append(connections, <<from_node, to_node>>)
            /\ result' = "ok"
    /\ UNCHANGED <<nodes, monitor_callback, pipeline, audioVars, blockVars, widgetVars, nodeVars, effectVars>>

\* audiokit/cli.py connect(from_node, to_node): the "graph connect" command.
cli_connect(from_node, to_node) ==
    /\ Len(connections) < MaxConns
    /\ IF from_node \notin DOMAIN nodes \/ to_node \notin DOMAIN nodes
       THEN /\ result' = "ExitBothNodesMustExist"
            /\ UNCHANGED connections
       ELSE /\ connections' = Append(connections, <<from_node, to_node>>)
            /\ result' = "ok"
    /\ UNCHANGED <<nodes, monitor_callback, pipeline, audioVars, blockVars, widgetVars, nodeVars, effectVars>>

\* AudioGraphManager.set_monitor_callback(callback)
set_monitor_callback ==
    /\ monitor_callback' = TRUE
    /\ result' = "ok"
    /\ UNCHANGED <<nodes, connections, pipeline, audioVars, blockVars, widgetVars, nodeVars, effectVars>>

\* AudioGraphManager.get_node(node_id): the node, or None.
get_node(node_id) ==
    IF node_id \in DOMAIN nodes THEN nodes[node_id] ELSE "None"

\* AudioGraphManager.get_connections(): the connection list itself.
get_connections == connections

----------------------------------------------------------------------------
(* audiokit/cli/pipeline.py create(config_file): build a fresh graph from  *)
(* a configuration; any exception ends the command with Exit(1).           *)

NodeConfig(node_id, node_type) == [id |-> node_id, type |-> node_type]
ConnConfig(from_id, to_id) == [from |-> from_id, to |-> to_id]

\* The configurations offered to create: the "basic" and "filter" templates
\* of template(), a two-node loop, a connection to a node that is not
\* declared, and a node of a type that is not registered.
Configs ==
    { [nodes |-> << NodeConfig("in", "AudioInputNode"), NodeConfig("out", "AudioOutputNode") >>,
       connections |-> << ConnConfig("in", "out") >>],
      [nodes |-> << NodeConfig("in", "AudioInputNode"), NodeConfig("f", "AudioFilterNode"),
                    NodeConfig("out", "AudioOutputNode") >>,
       connections |-> << ConnConfig("in", "f"), ConnConfig("f", "out") >>],
      [nodes |-> << NodeConfig("in", "AudioInputNode"), NodeConfig("f", "AudioFilterNode") >>,
       connections |-> << ConnConfig("in", "f"), ConnConfig("f", "in") >>],
      [nodes |-> << NodeConfig("in", "AudioInputNode"), NodeConfig("f", "AudioFilterNode") >>,
       connections |-> << ConnConfig("in", "f"), ConnConfig("f", "out") >>],
      [nodes |-> << NodeConfig("in", "AudioInputNode"), NodeConfig("f", "DelayNode") >>,
       connections |-> << ConnConfig("in", "f") >>] }

\* The loop "for node_config in config['nodes']": the graph after the loop,
\* or NoGraph when a type is not in get_available_nodes() (KeyError).
RECURSIVE CreateNodes(_, _)
CreateNodes(graph, node_configs) ==
    IF node_configs = << >> THEN graph
    ELSE LET nc == Head(node_configs)
         IN  IF nc.type \notin get_available_nodes THEN NoGraph
             ELSE CreateNodes([graph EXCEPT !.nodes = StoreNode(@, AudioNode(nc.type, nc.id))],
                              Tail(node_configs))

\* The loop "for conn in config['connections']": the graph after the loop,
\* or NoGraph when graph.connect raised.
RECURSIVE CreateConnections(_, _)
CreateConnections(graph, conn_configs) ==
    IF ~graph.built \/ conn_configs = << >> THEN graph
    ELSE LET c == Head(conn_configs)
         IN  IF ConnectOutcome(graph.nodes, c.from, c.to) # "ok" THEN NoGraph
             ELSE CreateConnections(
                      [graph EXCEPT !.connections =
                           ConnectList(graph.nodes, @, c.from, c.to)],
                      Tail(conn_configs))

\* The graph create() returns, or NoGraph when it raised.
CreateGraph(config) ==
    CreateConnections(CreateNodes(NewGraph, config.nodes), config.connections)

create(config) ==
    /\ IF CreateGraph(config).built
       THEN /\ pipeline' = CreateGraph(config)
            /\ result' = "ok"
       ELSE /\ result' = "ExitFailedToCreatePipeline"
            /\ UNCHANGED pipeline
    /\ UNCHANGED <<nodes, connections, monitor_callback, audioVars, blockVars, widgetVars, nodeVars, effectVars>>

----------------------------------------------------------------------------
(* The audio callback of _setup_audio, invoked by the device once per      *)
(* block on the device's thread.                                           *)

\* _process_audio running every node of the live node map.
ProcessAudioCallsLive(ns, conns) == DOMAIN ns

\* AudioGraphManager._process_audio(input_data): the ids of the nodes whose
\* process() it calls.  Its body holds no statement: it calls none.
ProcessAudioCalls(ns, conns) == {}

\* AudioGraphManager._process_audio(input_data): the value it returns.  A
\* body without a return statement returns None.
process_audio(ns, conns) == "None"

\* outdata[:] = output: a float32 block assigned None holds NaN in every
\* sample; assigned a block it holds that block.
AssignBlock(value) == IF value = "None" THEN "nan" ELSE value

\* outdata[:] = output assigns in place: the block keeps its shape whatever
\* is assigned to it.
AssignShape(shape, value) == shape

\* The callback raising sd.CallbackAbort when the device reports a status
\* flag: the stream stops on a single over/underrun.
callback_enter_abort(status, frames) ==
    /\ stream = "active"
    /\ pc = "idle"
    /\ IF status
       THEN /\ stream' = "stopped"
            /\ UNCHANGED <<audioVars, indata, outshape>>
       ELSE /\ pc' = "process_audio"
            /\ output' = "unset"
            /\ outdata' = "unwritten"
            /\ executed' = {}
            /\ monitored' = FALSE
            /\ indata' = Block(frames, Channels)
            /\ outshape' = Block(frames, Channels)
            /\ UNCHANGED stream
    /\ UNCHANGED <<nodes, connections, monitor_callback, result, pipeline,
                   widgetVars, nodeVars, effectVars>>

\* callback entry: "if status: print(...)" changes no state; the device
\* hands over an input block and a fresh output block of frames x channels
\* samples, and does so only while the stream is active.
callback_enter(status, frames) ==
    /\ stream = "active"
    /\ pc = "idle"
    /\ pc' = "process_audio"
    /\ output' = "unset"
    /\ outdata' = "unwritten"
    /\ executed' = {}
    /\ monitored' = FALSE
    /\ indata' = Block(frames, Channels)
    /\ outshape' = Block(frames, Channels)
    /\ UNCHANGED <<nodes, connections, monitor_callback, result, pipeline,
                   stream, widgetVars, nodeVars, effectVars>>

\* _process_audio following the connections from node to node: on a graph
\* with a cycle the walk does not end and the statement never completes.
callback_process_audio_walk ==
    /\ pc = "process_audio"
    /\ \A n \in NodeIds : ~Reaches(connections, n, n)
    /\ output' = process_audio(nodes, connections)
    /\ executed' = executed \cup ProcessAudioCalls(nodes, connections)
    /\ pc' = "outdata"
    /\ UNCHANGED <<nodes, connections, monitor_callback, result, pipeline,
                   outdata, monitored, blockVars, widgetVars, nodeVars, effectVars>>

\* output = self._process_audio(indata)
callback_process_audio ==
    /\ pc = "process_audio"
    /\ output' = process_audio(nodes, connections)
    /\ executed' = executed \cup ProcessAudioCalls(nodes, connections)
    /\ pc' = "outdata"
    /\ UNCHANGED <<nodes, connections, monitor_callback, result, pipeline,
                   outdata, monitored, blockVars, widgetVars, nodeVars, effectVars>>

\* outdata[:] = output
callback_outdata ==
    /\ pc = "outdata"
    /\ outdata' = AssignBlock(output)
    /\ outshape' = AssignShape(outshape, output)
    /\ pc' = "monitor"
    /\ UNCHANGED <<nodes, connections, monitor_callback, result, pipeline,
                   output, executed, monitored, stream, indata,
                   widgetVars, nodeVars, effectVars>>

\* if self.monitor_callback: self.monitor_callback(indata, outdata)
callback_monitor ==
    /\ pc = "monitor"
    /\ monitored' = monitor_callback
    /\ pc' = "idle"
    /\ UNCHANGED <<nodes, connections, monitor_callback, result, pipeline,
                   output, outdata, executed, blockVars, widgetVars, nodeVars, effectVars>>

\* One statement of the audio callback.
callback ==
    \/ \E status \in BOOLEAN : callback_enter(status, blocksize)
    \/ callback_process_audio
    \/ callback_outdata
    \/ callback_monitor

----------------------------------------------------------------------------
(* The process() methods of the effect nodes (audiokit/nodes/effects.py),  *)
(* on the shape (frames x channels) of the block they are given.  The      *)
(* nodes are constructed with their default parameters.                    *)

\* The effect classes.
TransformClasses == {"AudioFilterNode", "CompressorNode", "DelayNode"}

\* Shapes of the blocks offered to process(): one frame or a full device
\* block, mono or stereo; and no block at all.
FrameInputs == {1, blocksize}
ChannelInputs == {1, Channels}
BlockInputs ==
    { Block(f, c) : f \in FrameInputs, c \in ChannelInputs } \cup { NoBlock("None") }

\* np.zeros((1024, 2)): what every effect returns when it is given no block.
DefaultBlock == Block(1024, 2)

\* AudioFilterNode.process: signal.lfilter returns an array of the shape of
\* its input.
FilterProcess(block) ==
    IF block.is = "None" THEN DefaultBlock ELSE block

\* CompressorNode.process: "if gain_reduction[i] < self.envelope" takes the
\* truth value of a row of the block; numpy raises ValueError for a row of
\* more than one element.  For a row of one element the loop runs and the
\* product input_data * gain keeps the shape.
CompressorProcess(block) ==
    IF block.is = "None" THEN DefaultBlock
    ELSE IF block.frames >= 1 /\ block.channels > 1 THEN NoBlock("ValueError")
    ELSE block

\* DelayNode.process: the buffer rows hold 2 samples.  output[i] (channels
\* samples) is assigned input_data[i] * (1 - mix) + delayed * mix (2
\* samples), which numpy refuses with ValueError unless channels is 2.
DelayProcess(block) ==
    IF block.is = "None" THEN DefaultBlock
    ELSE IF block.frames >= 1 /\ block.channels # 2 THEN NoBlock("ValueError")
    ELSE block

\* node.process(input_data) for a node of class cls.
Process(cls, block) ==
    CASE cls = "AudioFilterNode" -> FilterProcess(block)
      [] cls = "CompressorNode" -> CompressorProcess(block)
      [] cls = "DelayNode" -> DelayProcess(block)

\* A caller (a test, a script) constructs an effect node and calls process.
node_process(cls, block) ==
    /\ node_class' = cls
    /\ node_input' = block
    /\ node_output' = Process(cls, block)
    /\ UNCHANGED <<nodes, connections, monitor_callback, result, pipeline,
                   audioVars, blockVars, widgetVars, effectVars>>

----------------------------------------------------------------------------
(* DelayNode (audiokit/nodes/effects.py) on the values of the samples: a   *)
(* caller constructs the node and feeds it stereo blocks.  delay_input and *)
(* delay_output record the frames given and returned since construction.   *)

\* Bound on the number of frames given to one DelayNode.
MaxSamples == 5

\* Bound on the number of frames of one block.
MaxBlockLen == 3

\* delay_time in milliseconds and sample_rate in Hz, as given to the
\* constructor.
DelayTimeInputs == {-1, 0, 1, 2, 3}
SampleRateInputs == {500, 1000}

\* feedback and mix as given to the constructor.
FeedbackInputs == {Zero, Half, Frac(-1, 2), One}
MixInputs == {Zero, Half, One}

\* The stereo blocks given to process(): 0 to MaxBlockLen frames, each
\* silent, an impulse on both channels, or an impulse on the left channel.
StereoFrames == {ZeroFrame, Frame(One, One), Frame(One, Zero)}
StereoBlocks == UNION { [1..n -> StereoFrames] : n \in 0..MaxBlockLen }

\* int(x) of the float n / d: the fraction truncated towards zero.
Trunc(n, d) == IF n >= 0 THEN n \div d ELSE -((-n) \div d)

\* self.buffer_size = int(self.delay_time * self.sample_rate / 1000)
BufferSize(delay_time, sample_rate) == Trunc(delay_time * sample_rate, 1000)

\* DelayNode.__init__: np.zeros((self.buffer_size, 2)) raises ValueError for
\* a negative size and returns an empty buffer for size 0; no parameter is
\* checked.
DelayInitOutcome(delay_time, sample_rate) ==
    IF BufferSize(delay_time, sample_rate) < 0 THEN "ValueError" ELSE "ok"

\* The node DelayNode.__init__ leaves.
DelayNode(delay_time, sample_rate, feedback, mix) ==
    [buffer_size |-> BufferSize(delay_time, sample_rate),
     buffer |-> [i \in 1..BufferSize(delay_time, sample_rate) |-> ZeroFrame],
     write_pos |-> 0,
     feedback |-> feedback,
     mix |-> mix,
     constructed |-> TRUE]

\* read_pos = (self.write_pos - self.buffer_size) % self.buffer_size
ReadPos(write_pos, buffer_size) ==
    (write_pos - buffer_size) % buffer_size

\* self.buffer[self.write_pos] = input_data[i] + delayed * self.feedback
DelayWrite(x, delayed, feedback) ==
    FrameAdd(x, FrameScale(delayed, feedback))

\* A mix that adds the mix amount itself instead of the delayed frame.
DelayMixAmount(x, delayed, mix) ==
    FrameAdd(FrameScale(x, FSub(One, mix)), Frame(mix, mix))

\* output[i] = input_data[i] * (1 - self.mix) + delayed * self.mix
DelayMix(x, delayed, mix) ==
    FrameAdd(FrameScale(x, FSub(One, mix)), FrameScale(delayed, mix))

\* buffer[pos] = value (the buffer is indexed from 0 in the code, from 1
\* here).
SetRow(buffer, pos, value) == [buffer EXCEPT ![pos + 1] = value]

\* One iteration of the loop of DelayNode.process on the frame x.
\* "delayed = self.buffer[read_pos]" is a numpy view of the buffer's row, not
\* a copy of it: the feedback is computed from the row as it was read, the
\* result is stored in the row at write_pos, and the mix then reads
\* "delayed" again, that is the row at read_pos as it is after the store.
DelayFrame(node, x) ==
    LET read_pos == ReadPos(node.write_pos, node.buffer_size)
        stored == SetRow(node.buffer, node.write_pos,
                         DelayWrite(x, node.buffer[read_pos + 1], node.feedback))
        delayed == stored[read_pos + 1]
    IN  [node |-> [node EXCEPT
                     !.buffer = stored,
                     !.write_pos = (node.write_pos + 1) % node.buffer_size],
         out |-> DelayMix(x, delayed, node.mix)]

\* The loop of DelayNode.process over the frames of the block.
RECURSIVE DelayLoop(_, _, _)
DelayLoop(node, block, out) ==
    IF block = << >> THEN [node |-> node, out |-> out]
    ELSE LET step == DelayFrame(node, Head(block))
         IN  DelayLoop(step.node, Tail(block), Append(out, step.out))

\* DelayNode.process on a stereo block: the modulo by self.buffer_size
\* raises ZeroDivisionError at the first frame when the buffer is empty.
DelayProcessOutcome(node, block) ==
    IF Len(block) >= 1 /\ node.buffer_size = 0 THEN "ZeroDivisionError" ELSE "ok"

\* DelayNode(node_id, delay_time=..., sample_rate=..., feedback=..., mix=...).
\* The model follows one node: the first one whose construction succeeds.
\* When the constructor raises, there is no node.
delay_init(delay_time, sample_rate, feedback, mix) ==
    /\ ~delay_node.constructed
    /\ delay_raised' = DelayInitOutcome(delay_time, sample_rate)
    /\ IF DelayInitOutcome(delay_time, sample_rate) = "ok"
       THEN /\ delay_node' = DelayNode(delay_time, sample_rate, feedback, mix)
            /\ delay_input' = << >>
            /\ delay_output' = << >>
       ELSE UNCHANGED <<delay_node, delay_input, delay_output>>
    /\ UNCHANGED <<engineVars, filterVars, compressorVars>>

\* DelayNode.process(block) on the constructed node.
delay_process(block) ==
    /\ delay_node.constructed
    /\ Len(delay_input) + Len(block) <= MaxSamples
    /\ delay_raised' = DelayProcessOutcome(delay_node, block)
    /\ IF DelayProcessOutcome(delay_node, block) = "ok"
       THEN /\ delay_node' = DelayLoop(delay_node, block, << >>).node
            /\ delay_input' = delay_input \o block
            /\ delay_output' = delay_output \o DelayLoop(delay_node, block, << >>).out
       ELSE UNCHANGED <<delay_node, delay_input, delay_output>>
    /\ UNCHANGED <<engineVars, filterVars, compressorVars>>

----------------------------------------------------------------------------
(* AudioFilterNode (audiokit/nodes/effects.py) on the values of the        *)
(* samples: a caller constructs the node and feeds it a signal block by    *)
(* block.  filter_input and filter_output are the concatenations, along    *)
(* the first axis, of the blocks given and returned.                       *)

\* Bound on the number of process() calls on one node.
MaxCalls == 2

\* self.sample_rate = params.get("sample_rate", 44100)
DefaultSampleRate == 44100

\* cutoff in Hz as given to the constructor: the default, a quarter of the
\* sample rate, and the Nyquist frequency.
CutoffInputs == {1000, 11025, 22050}

\* The arrays given to process(): a one-dimensional signal of 1 or 2
\* samples, or a (frames, 2) block of 1 or 2 frames, of samples 0 and 1.
FilterBlockLens == {1, 2}
FilterArrays ==
    UNION { { Array(<<n>>, d) : d \in [1..n -> {Zero, One}] } \cup
            { Array(<<n, Channels>>, d) : d \in [1..(n * Channels) -> {Zero, One}] }
            : n \in FilterBlockLens }

\* normal_cutoff = self.cutoff / (self.sample_rate / 2)
NormalCutoff(cutoff, sample_rate) == Frac(2 * cutoff, sample_rate)

\* signal.butter(2, normal_cutoff, btype="low", analog=False) raises
\* ValueError unless 0 < Wn < 1.
ButterOutcome(normal_cutoff) ==
    IF 0 < normal_cutoff[1] /\ normal_cutoff[1] < normal_cutoff[2]
    THEN "ok" ELSE "ValueError"

\* The coefficients (b, a) that signal.butter returns, named by the design
\* they realise: the same design gives the same coefficients.
Butter(order, normal_cutoff) ==
    [order |-> order, Wn |-> normal_cutoff, btype |-> "low"]

\* The node AudioFilterNode.__init__ leaves (self.resonance is stored and
\* never read).
FilterNode(cutoff) ==
    [cutoff |-> cutoff,
     coefficients |-> Butter(2, NormalCutoff(cutoff, DefaultSampleRate)),
     constructed |-> TRUE,
     raised |-> "ok"]

\* The runs of an array along its last axis, the axis signal.lfilter filters
\* by default (axis=-1): the whole signal for shape <<n>>, each frame for
\* shape <<n, c>>.
Runs(array) ==
    IF Len(array.shape) = 1 THEN <<array.data>>
    ELSE [r \in 1..array.shape[1] |->
             SubSeq(array.data, (r - 1) * array.shape[2] + 1, r * array.shape[2])]

\* The samples seen, without the silence before the first one that sounds.
RECURSIVE DropLeadingZeros(_)
DropLeadingZeros(seen) ==
    IF seen # << >> /\ Head(seen) = Zero THEN DropLeadingZeros(Tail(seen))
    ELSE seen

\* An output sample of lfilter.  No zi is passed, so the filter starts every
\* run at rest and the sample is the filter's response to the samples of
\* the run up to it: it is named by the coefficients and these samples.
\* Silence before the first sounding sample does not change the response,
\* and the response to silence is [seen |-> << >>], zero.
Response(coefficients, seen) ==
    [coefficients |-> coefficients, seen |-> DropLeadingZeros(seen)]

\* lfilter along one run.
RunResponse(coefficients, run) ==
    [k \in 1..Len(run) |-> Response(coefficients, SubSeq(run, 1, k))]

\* The rows of an array put back in row order.
RECURSIVE Flatten(_)
Flatten(rows) ==
    IF rows = << >> THEN << >> ELSE Head(rows) \o Flatten(Tail(rows))

\* signal.lfilter(self.b, self.a, input_data)
LFilter(coefficients, array) ==
    Array(array.shape,
          Flatten([r \in DOMAIN Runs(array) |->
                      RunResponse(coefficients, Runs(array)[r])]))

\* AudioFilterNode.process(input_data) for an array.
FilterNodeProcess(node, array) == LFilter(node.coefficients, array)

\* np.concatenate((a, b)) along the first axis.
Concat(a, b) ==
    IF a.shape = << >> THEN b
    ELSE Array(<<a.shape[1] + b.shape[1]>> \o Tail(a.shape), a.data \o b.data)

\* b continues the signal a: same number of dimensions and of channels.
Continues(a, b) ==
    IF a.shape = << >> THEN TRUE ELSE Tail(a.shape) = Tail(b.shape)

\* AudioFilterNode(node_id, cutoff=...).  The model follows one node: the
\* first one whose construction succeeds.
filter_init(cutoff) ==
    /\ ~filter_node.constructed
    /\ filter_node' =
          IF ButterOutcome(NormalCutoff(cutoff, DefaultSampleRate)) = "ok"
          THEN FilterNode(cutoff)
          ELSE [NoFilter EXCEPT !.raised = "ValueError"]
    /\ UNCHANGED <<filter_input, filter_output, filter_calls>>
    /\ UNCHANGED <<engineVars, delayVars, compressorVars>>

\* AudioFilterNode.process(block) on the constructed node, the block being
\* the next part of the signal.
filter_process(block) ==
    /\ filter_node.constructed
    /\ filter_calls < MaxCalls
    /\ Continues(filter_input, block)
    /\ filter_input' = Concat(filter_input, block)
    /\ filter_output' = Concat(filter_output, FilterNodeProcess(filter_node, block))
    /\ filter_calls' = filter_calls + 1
    /\ UNCHANGED filter_node
    /\ UNCHANGED <<engineVars, delayVars, compressorVars>>

----------------------------------------------------------------------------
(* CompressorNode (audiokit/nodes/effects.py) on the values of the         *)
(* samples: a caller constructs the node and gives it blocks.              *)

\* threshold (dB), ratio and makeup (dB) as given to the constructor.
ThresholdInputs == {Frac(-20, 1), Zero}
RatioInputs == {One, Frac(2, 1), Frac(4, 1)}
MakeupInputs == {Zero, Frac(6, 1)}

\* attack and release in milliseconds and sample_rate in Hz, as given to
\* the constructor: an attack of 2 samples and a release of 4.
AttackInputs == {2}
ReleaseInputs == {4}
CompressorSampleRates == {1000}

\* The amplitudes of the samples given to process(): silence, full scale,
\* and a tenth of full scale (either sign).
Amplitudes == {Zero, One, Frac(-1, 1), Frac(1, 10)}

\* The arrays given to process(): a one-dimensional signal of 1 or 2
\* samples, or a (1, 2) stereo block.
CompressorArrays ==
    UNION { { Array(<<n>>, d) : d \in [1..n -> Amplitudes] } : n \in {1, 2} }
    \cup { Array(<<1, Channels>>, d) : d \in [1..Channels -> Amplitudes] }

\* level_db = 20 * np.log10(np.abs(x) + 1e-10), for the amplitudes above
\* (the 1e-10 moves the level of a sounding sample by less than 1e-8 dB).
LevelDb(x) ==
    CASE x = Zero -> Frac(-200, 1)
      [] Abs(x[1]) = x[2] -> Zero
      [] Abs(x[1]) * 10 = x[2] -> Frac(-20, 1)

\* np.minimum(0, (level_db - self.threshold) * (1 - 1 / self.ratio))
GainReduction(level_db, threshold, ratio) ==
    FMin(Zero, FMul(FSub(level_db, threshold), FSub(One, FDiv(One, ratio))))

\* One iteration of the envelope loop.
EnvelopeStep(envelope, gain_reduction, attack_samples, release_samples) ==
    IF FLess(gain_reduction, envelope)
    THEN FAdd(envelope, FDiv(FSub(gain_reduction, envelope), Frac(attack_samples, 1)))
    ELSE FAdd(envelope, FDiv(FSub(gain_reduction, envelope), Frac(release_samples, 1)))

\* The envelope loop over the samples of a one-dimensional block.
RECURSIVE EnvelopeLoop(_, _, _)
EnvelopeLoop(node, envelope, samples) ==
    IF samples = << >> THEN envelope
    ELSE EnvelopeLoop(node,
                      EnvelopeStep(envelope,
                                   GainReduction(LevelDb(Head(samples)),
                                                 node.threshold, node.ratio),
                                   node.attack_samples, node.release_samples),
                      Tail(samples))

\* x * np.power(10, gain_db / 20): the sample x under a gain of gain_db dB;
\* silence stays silence under any gain.
Gain(x, gain_db) ==
    [sample |-> x, gain_db |-> IF x = Zero THEN Zero ELSE gain_db]

\* "if gain_reduction[i] < self.envelope" takes the truth value of
\* gain_reduction[i]: a number for a one-dimensional block, a row for a
\* (frames, channels) block, for which numpy raises ValueError when the row
\* has more than one element.  It is the first statement of the loop.
CompressorOutcome(array) ==
    IF Len(array.shape) = 2 /\ array.shape[1] >= 1 /\ array.shape[2] >= 2
    THEN "ValueError" ELSE "ok"

\* The block CompressorNode.process returns, the envelope being the one the
\* loop has left.
CompressorOutput(node, envelope, array) ==
    Array(array.shape,
          [i \in DOMAIN array.data |->
              Gain(array.data[i], FAdd(envelope, node.makeup))])

\* The node CompressorNode.__init__ leaves.
CompressorNode(threshold, ratio, makeup, attack, release, sample_rate) ==
    [threshold |-> threshold, ratio |-> ratio, makeup |-> makeup,
     attack_samples |-> Trunc(attack * sample_rate, 1000),
     release_samples |-> Trunc(release * sample_rate, 1000),
     envelope |-> Zero,
     constructed |-> TRUE]

\* CompressorNode(node_id, threshold=..., ratio=..., ...).  The constructor
\* checks nothing and does not raise.  The model follows one node.
compressor_init(threshold, ratio, makeup, attack, release, sample_rate) ==
    /\ ~compressor_node.constructed
    /\ compressor_node' =
          CompressorNode(threshold, ratio, makeup, attack, release, sample_rate)
    /\ comp_raised' = "ok"
    /\ UNCHANGED <<comp_input, comp_output, comp_calls>>
    /\ UNCHANGED <<engineVars, delayVars, filterVars>>

\* CompressorNode.process(block) on the constructed node.
compressor_process(block) ==
    /\ compressor_node.constructed
    /\ comp_calls < MaxCalls
    /\ comp_calls' = comp_calls + 1
    /\ comp_input' = block
    /\ comp_raised' = CompressorOutcome(block)
    /\ IF CompressorOutcome(block) = "ok"
       THEN LET envelope == EnvelopeLoop(compressor_node,
                                         compressor_node.envelope, block.data)
            IN  /\ compressor_node' = [compressor_node EXCEPT !.envelope = envelope]
                /\ comp_output' = CompressorOutput(compressor_node, envelope, block)
       ELSE /\ comp_output' = NoArray
            /\ UNCHANGED compressor_node
    /\ UNCHANGED <<engineVars, delayVars, filterVars>>

----------------------------------------------------------------------------
(* Metrics reads.                                                          *)

\* The attributes of an AudioGraphManager object: the fields __init__ sets
\* and the methods the class defines.
AudioGraphManagerAttrs ==
    { "nodes", "connections", "stream", "monitor_callback", "_setup_audio",
      "add_node", "connect", "get_node", "get_connections", "process",
      "set_monitor_callback", "_process_audio" }

\* Calling graph.<name>(): "ok" when the class has the method, else the
\* AttributeError the attribute lookup raises.
CallMethod(name) ==
    IF name \in AudioGraphManagerAttrs THEN "ok" ELSE "AttributeError"

\* The outcome of the three metrics calls made in a row: the first exception
\* raised, or "ok".
MetricsOutcome ==
    IF CallMethod("get_active_nodes") # "ok" THEN CallMethod("get_active_nodes")
    ELSE IF CallMethod("get_node_cpu_usage") # "ok" THEN CallMethod("get_node_cpu_usage")
    ELSE CallMethod("get_node_signal_levels")

\* audiokit/cli.py graph_stats(): the "graph stats" command.
graph_stats ==
    /\ result' = MetricsOutcome
    /\ UNCHANGED <<nodes, connections, monitor_callback, pipeline,
                   audioVars, blockVars, widgetVars, nodeVars, effectVars>>

\* PipelineGraph._update_metrics(): the widget's 30 Hz timer.  Each field is
\* assigned only if its call returned; the class has none of the three
\* methods, so a field that is assigned would hold what the method returned.
update_metrics ==
    /\ result' = MetricsOutcome
    /\ active_nodes' =
          IF CallMethod("get_active_nodes") = "ok" THEN DOMAIN nodes ELSE active_nodes
    /\ UNCHANGED <<cpu_usage, signal_levels>>
    /\ UNCHANGED <<nodes, connections, monitor_callback, pipeline,
                   audioVars, blockVars, nodeVars, effectVars>>

----------------------------------------------------------------------------
Next ==
    \/ \E n \in NodeInputs : add_node(n[1], n[2])
    \/ \E c \in ConnInputs : connect(c[1], c[2])
    \/ \E n \in NodeInputs, params_ok \in BOOLEAN : cli_add_node(n[2], n[1], params_ok)
    \/ \E c \in ConnInputs : cli_connect(c[1], c[2])
    \/ set_monitor_callback
    \/ \E config \in Configs : create(config)
    \/ callback

Spec == Init /\ [][Next]_vars

\* The outcomes of a control call that report an error to the caller.
ErrorResults ==
    { "ValueError", "ExitUnknownNodeType", "ExitParamsJSON",
      "ExitBothNodesMustExist", "ExitFailedToCreatePipeline" }

\* The graph, the audio callback and the nodes' process(), without the
\* command line and the loader.
BlockNext ==
    \/ \E n \in NodeInputs : add_node(n[1], n[2])
    \/ \E c \in ConnInputs : connect(c[1], c[2])
    \/ callback
    \/ \E cls \in TransformClasses, block \in BlockInputs : node_process(cls, block)

BlockSpec == Init /\ [][BlockNext]_vars

\* The graph, the audio callback and the readers of the metrics: the "graph
\* stats" command and the pipeline widget's timer.
MetricsNext ==
    \/ \E n \in NodeInputs : add_node(n[1], n[2])
    \/ \E c \in ConnInputs : connect(c[1], c[2])
    \/ callback
    \/ graph_stats
    \/ update_metrics

MetricsSpec == Init /\ [][MetricsNext]_vars

\* A DelayNode constructed and fed blocks by its caller.
DelayNext ==
    \/ \E delay_time \in DelayTimeInputs, sample_rate \in SampleRateInputs,
          feedback \in FeedbackInputs, mix \in MixInputs :
          delay_init(delay_time, sample_rate, feedback, mix)
    \/ \E block \in StereoBlocks : delay_process(block)

DelaySpec == Init /\ [][DelayNext]_vars

\* An AudioFilterNode constructed and fed a signal by its caller.
FilterNext ==
    \/ \E cutoff \in CutoffInputs : filter_init(cutoff)
    \/ \E block \in FilterArrays : filter_process(block)

FilterSpec == Init /\ [][FilterNext]_vars

\* A CompressorNode constructed and given blocks by its caller.
CompressorNext ==
    \/ \E threshold \in ThresholdInputs, ratio \in RatioInputs,
          makeup \in MakeupInputs, attack \in AttackInputs,
          release \in ReleaseInputs, sample_rate \in CompressorSampleRates :
          compressor_init(threshold, ratio, makeup, attack, release, sample_rate)
    \/ \E block \in CompressorArrays : compressor_process(block)

CompressorSpec == Init /\ [][CompressorNext]_vars

\* The manager in one process: its control operations and the callback of
\* its stream.
AudioNext ==
    \/ \E n \in NodeInputs : add_node(n[1], n[2])
    \/ \E c \in ConnInputs : connect(c[1], c[2])
    \/ set_monitor_callback
    \/ callback

\* The device keeps invoking the callback and the callback's thread keeps
\* running; nothing is assumed about the control context.
AudioFairSpec == Init /\ [][AudioNext]_vars /\ WF_vars(callback)

----------------------------------------------------------------------------
(* Properties.                                                             *)

\* The orders of the node set S: every node exactly once.
Orders(S) ==
    { p \in [1..Cardinality(S) -> S] : \A i, j \in DOMAIN p : p[i] = p[j] => i = j }

\* The position of node n in the order p.
Pos(p, n) == CHOOSE i \in DOMAIN p : p[i] = n

\* The orders of the graph's nodes in which every connection goes forward.
TopologicalOrders(ns, conns) ==
    { p \in Orders(DOMAIN ns) : \A e \in Edges(conns) : Pos(p, e[1]) < Pos(p, e[2]) }

\* C1: every graph reached by successful add_node and connect calls has a
\* plan: an order holding every node exactly once in which, for every
\* connection (from, to), from stands strictly before to.
C1_EveryGraphHasAPlan == TopologicalOrders(nodes, connections) # {}

\* C2: connect(a, b) between existing nodes a and b, called when a path from
\* b to a exists, fails with CycleDetected and leaves the connection list as
\* it was (a and b distinct here: connect(a, a) is the case of C3).
C2_CycleRejected ==
    [][\A c \in ConnInputs :
          ( /\ connect(c[1], c[2]) \/ cli_connect(c[1], c[2])
            /\ c[1] # c[2]
            /\ c[1] \in DOMAIN nodes /\ c[2] \in DOMAIN nodes
            /\ Reaches(connections, c[2], c[1]) )
          => (result' = "CycleDetected" /\ connections' = connections)]_vars

\* C3: in every reachable state no node reaches itself along one or more
\* connections, in the manager's graph and in a graph returned by create.
C3_Acyclic ==
    \A n \in NodeIds : /\ ~Reaches(connections, n, n)
                       /\ ~Reaches(pipeline.connections, n, n)

\* C4: connect with a from or to id that is not a stored node fails with the
\* unknown-node error (ValueError in the manager, exit status 1 with "Both
\* nodes must exist" on the command line) and adds no connection.
C4_UnknownNodeRejected ==
    [][\A c \in ConnInputs :
          (c[1] \notin DOMAIN nodes \/ c[2] \notin DOMAIN nodes) =>
             /\ connect(c[1], c[2]) =>
                   (result' = "ValueError" /\ connections' = connections)
             /\ cli_connect(c[1], c[2]) =>
                   (result' = "ExitBothNodesMustExist" /\ connections' = connections)]_vars

\* C4 witness: a connect call was refused for an unknown node while the
\* graph already held nodes and connections.
C4_Witness ==
    /\ result \in {"ValueError", "ExitBothNodesMustExist"}
    /\ DOMAIN nodes # NodeIds
    /\ connections # << >>

\* C5: add_node with an id that is already stored fails with DuplicateId and
\* the node stored under that id stays the one stored before.
C5_DuplicateIdRejected ==
    [][\A n \in NodeInputs :
          ( /\ n[1] \in DOMAIN nodes
            /\ add_node(n[1], n[2]) \/ cli_add_node(n[2], n[1], TRUE) )
          => (result' = "DuplicateId" /\ nodes'[n[1]] = nodes[n[1]])]_vars

\* C6: a control call that reports an error leaves the node map, the
\* connection list and the graph obtained from create exactly as they were.
C6_ErrorsChangeNothing ==
    [][result' \in ErrorResults =>
          (nodes' = nodes /\ connections' = connections /\ pipeline' = pipeline)]_vars

\* C6 witness: an error was reported while the graph held nodes and
\* connections and a pipeline had been created.
C6_Witness ==
    /\ result \in ErrorResults
    /\ DOMAIN nodes # {}
    /\ connections # << >>
    /\ pipeline.built

\* C8: a block that has started runs to completion whatever the control
\* context does or fails to do: the callback waits for nothing.
C8_BlockRunsToCompletion == (pc # "idle") ~> (pc = "idle")

\* C8 witness: a block is in progress after control edits of the graph.
C8_Witness ==
    /\ pc = "outdata"
    /\ connections # << >>

C11_EndpointsPresent ==
    /\ \A e \in Edges(connections) : e[1] \in DOMAIN nodes /\ e[2] \in DOMAIN nodes
    /\ \A e \in Edges(pipeline.connections) :
          e[1] \in DOMAIN pipeline.nodes /\ e[2] \in DOMAIN pipeline.nodes

\* C11 witness: connections were made while one of the ids offered to connect
\* was still not a node, and a connect call for it was refused.
C11_Witness ==
    /\ Len(connections) >= 2
    /\ DOMAIN nodes # NodeIds
    /\ result = "ExitBothNodesMustExist"

\* C14: the stream stops only between blocks, a stopped stream processes no
\* further block, a block that the device flags with a status (over/underrun)
\* is processed like any other, and after every block the stream is still
\* active, able to take the next one.
C14_StoppedOnlyBetweenBlocks ==
    [][ /\ (stream = "active" /\ stream' = "stopped") => pc = "idle"
        /\ stream = "stopped" => (stream' = "stopped" /\ pc' = pc)
        /\ callback_enter(TRUE, blocksize) =>
               (stream' = "active" /\ pc' = "process_audio")
        /\ (pc # "idle" /\ pc' = "idle") => stream' = "active" ]_vars

\* C14 witness: a device block ran to its end and the stream is active.
C14_Witness ==
    /\ pc = "idle"
    /\ indata = Block(blocksize, Channels)
    /\ outdata # "unwritten"
    /\ stream = "active"

\* C16: a metrics read made by the control path returns a snapshot: the
\* "graph stats" command and the widget's timer end without an error.
C16_MetricsReadReturns ==
    [][(graph_stats \/ update_metrics) => result' = "ok"]_vars

\* C17: once in, f and out are stored and chained by connect("in","f") and
\* connect("f","out") and a block has been processed, a metrics read leaves
\* exactly {in, f, out} as the active nodes, and the connection list is
\* <<(in,f), (f,out)>>, in the order of the connect calls.
C17_ActiveNodesAfterOneBlock ==
    [][ ( /\ DOMAIN nodes = {"in", "f", "out"}
          /\ get_connections = << <<"in", "f">>, <<"f", "out">> >>
          /\ pc = "idle" /\ outdata # "unwritten"
          /\ update_metrics )
        => active_nodes' = {"in", "f", "out"} ]_vars

\* C18: the output block of every callback has the shape of its input block,
\* for every graph, and every effect node's process returns a block of the
\* shape of the block it was given.
C18_ShapePreserved ==
    /\ outshape = indata
    /\ node_input.is = "block" => node_output = node_input

\* The frames are all silent.
AllZero(frames) == \A i \in 1..Len(frames) : frames[i] = ZeroFrame

RECURSIVE FPow(_, _)
FPow(x, k) == IF k = 0 THEN One ELSE FMul(x, FPow(x, k - 1))

\* The frames are an impulse followed by silence.
ImpulseThenSilence(frames) ==
    /\ Len(frames) >= 1
    /\ frames[1] # ZeroFrame
    /\ \A i \in 2..Len(frames) : frames[i] = ZeroFrame

\* The wet part of the n-th returned frame (n from 0): the frame less the
\* dry part (1 - mix) * input.
Wet(n) ==
    FrameAdd(delay_output[n + 1],
             FrameScale(delay_input[n + 1], FSub(delay_node.mix, One)))

\* The echo of a unit impulse at frame n: m * f^(k-1) at n = k*d, k >= 1,
\* and nothing elsewhere.
Echo(n, d, f, m) ==
    IF n >= d /\ n % d = 0 THEN FMul(m, FPow(f, (n \div d) - 1)) ELSE Zero

\* C22: a freshly constructed DelayNode with a buffer of d >= 1 frames,
\* feedback f and mix m, given an impulse at frame 0 and then silence, in
\* blocks of any lengths, returns one frame per frame, whose wet part is the
\* impulse times m * f^(k-1) at the frames k*d (k >= 1) and zero at every
\* other frame: the first echo is at frame d.
C22_ImpulseEchoes ==
    ( /\ delay_node.constructed
      /\ delay_node.buffer_size >= 1
      /\ ImpulseThenSilence(delay_input) )
    => /\ Len(delay_output) = Len(delay_input)
       /\ \A n \in 0..(Len(delay_input) - 1) :
             Wet(n) = FrameScale(delay_input[1],
                                 Echo(n, delay_node.buffer_size,
                                      delay_node.feedback, delay_node.mix))

\* C23: no DelayNode exists whose feedback has a magnitude of one or more:
\* the constructor rejects such a feedback (seen here on the nodes that have
\* a buffer to feed back into).
C23_FeedbackBelowOne ==
    (delay_node.constructed /\ delay_node.buffer_size >= 1)
    => Abs(delay_node.feedback[1]) < delay_node.feedback[2]

\* C30: every DelayNode that the constructor returns has a buffer of at
\* least one frame, and after any calls of process its write position is
\* within the buffer and equals the number of frames processed modulo the
\* buffer size.
C30_CursorWithinBuffer ==
    delay_node.constructed =>
        /\ delay_node.buffer_size >= 1
        /\ Len(delay_node.buffer) = delay_node.buffer_size
        /\ 0 <= delay_node.write_pos
        /\ delay_node.write_pos < delay_node.buffer_size
        /\ delay_node.write_pos = Len(delay_input) % delay_node.buffer_size

\* C24: a CompressorNode with ratio 1 and makeup 0, whatever its threshold
\* and whatever blocks it is given, keeps its envelope at 0, and every
\* process call returns the block it was given, sample for sample.
C24_UnityRatioIsTransparent ==
    ( /\ compressor_node.constructed
      /\ compressor_node.ratio = One
      /\ compressor_node.makeup = Zero )
    => /\ compressor_node.envelope = Zero
       /\ comp_calls >= 1 =>
             /\ comp_raised = "ok"
             /\ comp_output =
                   Array(comp_input.shape,
                         [i \in DOMAIN comp_input.data |-> Gain(comp_input.data[i], Zero)])

\* C28: an AudioFilterNode keeps its filter state from one block to the
\* next: the outputs of two consecutive process calls, put end to end, are
\* the output of one process call on the two blocks put end to end.
C28_BlocksFilterAsOneSignal ==
    filter_calls = 2 => filter_output = FilterNodeProcess(filter_node, filter_input)

\* C29: the connections form a set: a successful connect(a, b) for a
\* connection that is already listed leaves one (a, b) entry, so no
\* connection between two different nodes occurs twice in the connection
\* list.
C29_NoConnectionListedTwice ==
    \A i, j \in 1..Len(get_connections) :
        ( /\ get_connections[i] = get_connections[j]
          /\ get_connections[i][1] # get_connections[i][2] ) => i = j
====
